---- MODULE Spec2Model ----
(***************************************************************************)
(* Model of sync_manager.py: the event handlers of SyncHandler, the        *)
(* recording transport MockFTPSync and the path computation both rest on   *)
(* (pathlib's Path(...), relative_to and str).                             *)
(*                                                                         *)
(* A string is modelled by the list of its pieces between "/" separators   *)
(* (what s.split("/") returns), so that "/r//rx" is <<"", "r", "", "rx">>, *)
(* "/" is <<"", "">>, "." is <<".">> and "" is <<"">>.  The names between  *)
(* separators are atomic.                                                  *)
(***************************************************************************)
EXTENDS Naturals, Sequences

VARIABLES
    local_path,       \* MockFTPSync.local_path, a parsed Path
    operations,       \* MockFTPSync.operations
    event,            \* the event the observer has dispatched to the handler
    raised,           \* the handler call ended with ValueError
    logged,           \* the records the handler call passed to logging.info
    prev_operations,  \* MockFTPSync.operations when the handler was entered
    without_failures, \* the log of the same events with the raising ones left out
    failed,           \* a handler call has raised since the log was last empty
    since_clear,      \* each event's operations, in delivery order, since the last clear
    local_files,      \* MirrorSpec: the files under the watch root, relative to it
    remote_files,     \* MirrorSpec: the paths of the files in the remote store
    arg,              \* ResolveSpec: the path handed to the resolver
    res               \* ResolveSpec: what the resolver returned

vars == <<local_path, operations, event, raised, logged, prev_operations,
          without_failures, failed, since_clear, local_files, remote_files,
          arg, res>>

----------------------------------------------------------------------------
(* Bounds *)

\* Most pieces after the leading separator in an event's path.
MaxSegs == 2
\* Events are dispatched while the log holds at most this many operations.
MaxOps == 1
\* Most pieces after the leading separator in a path handed to the resolver alone.
MaxPathSegs == 4
\* Most parts, below the watch root, of the path of a mirrored file.
MirrorDepth == 2

\* The pieces a path of an event is made of.
EventSeg == {"", "..", "r"}
\* The pieces a path handed to the resolver alone is made of.
Seg == {"", ".", "..", "r", "rx"}

RECURSIVE SeqsUpTo(_, _)
SeqsUpTo(S, n) ==
    IF n = 0 THEN {<<>>}
    ELSE LET shorter == SeqsUpTo(S, n - 1)
         IN  shorter \cup {Append(t, x) : t \in shorter, x \in S}

\* The absolute path strings: a leading separator, then 1..n pieces.
AbsStrings(S, n) == {<<"">> \o t : t \in SeqsUpTo(S, n) \ {<<>>}}

EventPaths == AbsStrings(EventSeg, MaxSegs)
ResolverPaths == AbsStrings(Seg, MaxPathSegs)

\* The watch roots the transport is constructed with: "/" and "/r".
RootStrings == {<<"", "">>, <<"", "r">>}

\* The watch root of the transport the event handlers are run on: "/r".
HandlerRoots == {<<"", "r">>}

----------------------------------------------------------------------------
(* pathlib, as the source uses it *)

RECURSIVE LeadingEmpty(_)
LeadingEmpty(s) ==
    IF s = <<>> \/ Head(s) # "" THEN 0 ELSE 1 + LeadingEmpty(Tail(s))

\* The number of separators the string starts with.
LeadingSlashes(s) ==
    IF LeadingEmpty(s) = Len(s) THEN Len(s) - 1 ELSE LeadingEmpty(s)

IsPart(x) == x # "" /\ x # "."

\* Path(s): the root ("", "/" or, for exactly two leading separators, "//")
\* and the parts; empty and "." pieces are dropped, ".." pieces are kept.
PathOf(s) ==
    [root  |-> IF LeadingSlashes(s) = 0 THEN ""
               ELSE IF LeadingSlashes(s) = 2 THEN "//" ELSE "/",
     parts |-> SelectSeq(s, IsPart)]

\* Mutant: str(path) of the relative path without parts is the empty string.
StrOf_empty(p) ==
    IF p.root = ""
    THEN IF p.parts = <<>> THEN <<"">> ELSE p.parts
    ELSE (IF p.root = "//" THEN <<"", "">> ELSE <<"">>)
         \o (IF p.parts = <<>> THEN <<"">> ELSE p.parts)

\* str(path)
StrOf(p) ==
    IF p.root = ""
    THEN IF p.parts = <<>> THEN <<".">> ELSE p.parts
    ELSE (IF p.root = "//" THEN <<"", "">> ELSE <<"">>)
         \o (IF p.parts = <<>> THEN <<"">> ELSE p.parts)

IsPrefix(s, t) == Len(s) <= Len(t) /\ SubSeq(t, 1, Len(s)) = s

\* path.relative_to(other): ok is FALSE where pathlib raises ValueError.
RelativeTo(p, other) ==
    IF p.root = other.root /\ IsPrefix(other.parts, p.parts)
    THEN [ok |-> TRUE,
          path |-> [root |-> "",
                    parts |-> SubSeq(p.parts, Len(other.parts) + 1, Len(p.parts))]]
    ELSE [ok |-> FALSE, path |-> [root |-> "", parts |-> <<>>]]

\* str(Path(s).relative_to(root)), the handlers' path resolution.
Resolve(s, root) ==
    LET rel == RelativeTo(PathOf(s), root)
    IN  [ok |-> rel.ok, str |-> StrOf(rel.path)]

----------------------------------------------------------------------------
(* MockFTPSync *)

\* A call in progress: the log, what was logged, whether ValueError is raised.
\* A raised call skips every statement after the raise.

Raise(st) == [st EXCEPT !.raised = TRUE]

\* Mutant: upload_file records the operation before it relativizes the path.
upload_file_recording_first(st, root, local_file) ==
    IF st.raised THEN st
    ELSE LET lf == PathOf(local_file)
             rel == RelativeTo(lf, root)
             recorded == [st EXCEPT
                            !.operations = Append(@, [type |-> "upload",
                                                      local |-> StrOf(lf),
                                                      remote |-> StrOf(rel.path)]),
                            !.logged = Append(@, [msg |-> "Mock uploaded",
                                                  path |-> StrOf(lf)])]
         IN  IF ~rel.ok THEN Raise(recorded) ELSE recorded

\* Mutant: upload_file skips a file whose upload is already in the log.
upload_file_once(st, root, local_file) ==
    IF st.raised THEN st
    ELSE LET lf == PathOf(local_file)
             rel == RelativeTo(lf, root)
             op == [type |-> "upload", local |-> StrOf(lf), remote |-> StrOf(rel.path)]
         IN  IF ~rel.ok THEN Raise(st)
             ELSE IF \E i \in 1..Len(st.operations) : st.operations[i] = op THEN st
             ELSE [st EXCEPT
                     !.operations = Append(@, op),
                     !.logged = Append(@, [msg |-> "Mock uploaded", path |-> StrOf(lf)])]

upload_file(st, root, local_file) ==
    IF st.raised THEN st
    ELSE LET lf == PathOf(local_file)
             rel == RelativeTo(lf, root)
         IN  IF ~rel.ok THEN Raise(st)
             ELSE [st EXCEPT
                     !.operations = Append(@, [type |-> "upload",
                                               local |-> StrOf(lf),
                                               remote |-> StrOf(rel.path)]),
                     !.logged = Append(@, [msg |-> "Mock uploaded", path |-> StrOf(lf)])]

\* Mutant: delete_file relativizes its argument again, as the shadowed first
\* definition of the class does.
delete_file_relativizing(st, root, remote_file) ==
    IF st.raised THEN st
    ELSE LET rel == RelativeTo(PathOf(remote_file), root)
         IN  IF ~rel.ok THEN Raise(st)
             ELSE [st EXCEPT
                     !.operations = Append(@, [type |-> "delete",
                                               remote |-> StrOf(rel.path)]),
                     !.logged = Append(@, [msg |-> "Mock deleted",
                                           path |-> StrOf(rel.path)])]

\* Mutant: delete_file takes the uploads of the same remote path out of the log
\* before it records the deletion.
delete_file_cancelling(st, root, remote_file) ==
    IF st.raised THEN st
    ELSE LET Kept(op) == ~(op.type = "upload" /\ op.remote = remote_file)
         IN  [st EXCEPT
                !.operations = Append(SelectSeq(@, Kept),
                                      [type |-> "delete", remote |-> remote_file]),
                !.logged = Append(@, [msg |-> "Mock deleted", path |-> remote_file])]

\* The definition of delete_file the class ends up with (the second one).
delete_file(st, root, remote_file) ==
    IF st.raised THEN st
    ELSE [st EXCEPT
            !.operations = Append(@, [type |-> "delete", remote |-> remote_file]),
            !.logged = Append(@, [msg |-> "Mock deleted", path |-> remote_file])]

\* Mutant: create_remote_directory relativizes its argument again, as the
\* shadowed first definition of the class does.
create_remote_directory_relativizing(st, root, remote_dir) ==
    IF st.raised THEN st
    ELSE LET rel == RelativeTo(PathOf(remote_dir), root)
         IN  IF ~rel.ok THEN Raise(st)
             ELSE [st EXCEPT
                     !.operations = Append(@, [type |-> "create_dir",
                                               remote |-> StrOf(rel.path)]),
                     !.logged = Append(@, [msg |-> "Mock created directory",
                                           path |-> StrOf(rel.path)])]

\* The definition of create_remote_directory the class ends up with (the second one).
create_remote_directory(st, root, remote_dir) ==
    IF st.raised THEN st
    ELSE [st EXCEPT
            !.operations = Append(@, [type |-> "create_dir", remote |-> remote_dir]),
            !.logged = Append(@, [msg |-> "Mock created directory", path |-> remote_dir])]

----------------------------------------------------------------------------
(* SyncHandler *)

on_created(st, root, ev) ==
    IF ev.is_directory
    THEN LET relative_path == Resolve(ev.src_path, root)
         IN  IF ~relative_path.ok THEN Raise(st)
             ELSE create_remote_directory(st, root, relative_path.str)
    ELSE upload_file(st, root, ev.src_path)

\* Mutant: on_modified uploads whatever was modified, directories too.
on_modified_any(st, root, ev) == upload_file(st, root, ev.src_path)

on_modified(st, root, ev) ==
    IF ~ev.is_directory THEN upload_file(st, root, ev.src_path) ELSE st

on_deleted(st, root, ev) ==
    IF ev.is_directory THEN st
    ELSE LET relative_path == Resolve(ev.src_path, root)
         IN  IF ~relative_path.ok THEN Raise(st)
             ELSE delete_file(st, root, relative_path.str)

\* Mutant: on_moved uploads (or creates) the destination before deleting the source.
on_moved_upload_first(st, root, ev) ==
    LET src_relative == Resolve(ev.src_path, root)
        dest_relative == Resolve(ev.dest_path, root)
    IN  IF ~src_relative.ok \/ ~dest_relative.ok THEN Raise(st)
        ELSE IF ev.is_directory
             THEN delete_file(create_remote_directory(st, root, dest_relative.str),
                              root, src_relative.str)
             ELSE delete_file(upload_file(st, root, ev.dest_path),
                              root, src_relative.str)

\* Mutant: on_moved takes the file branch for directories too.
on_moved_dir_as_file(st, root, ev) ==
    LET src_relative == Resolve(ev.src_path, root)
        dest_relative == Resolve(ev.dest_path, root)
    IN  IF ~src_relative.ok \/ ~dest_relative.ok THEN Raise(st)
        ELSE upload_file(delete_file(st, root, src_relative.str), root, ev.dest_path)

\* Mutant: on_moved resolves the destination only after it has deleted the source.
on_moved_late_dest(st, root, ev) ==
    LET src_relative == Resolve(ev.src_path, root)
        dest_relative == Resolve(ev.dest_path, root)
    IN  IF ~src_relative.ok THEN Raise(st)
        ELSE IF ev.is_directory
             THEN IF ~dest_relative.ok
                  THEN Raise(delete_file(st, root, src_relative.str))
                  ELSE create_remote_directory(delete_file(st, root, src_relative.str),
                                               root, dest_relative.str)
             ELSE upload_file(delete_file(st, root, src_relative.str),
                              root, ev.dest_path)

on_moved(st, root, ev) ==
    LET src_relative == Resolve(ev.src_path, root)
        dest_relative == Resolve(ev.dest_path, root)
    IN  IF ~src_relative.ok \/ ~dest_relative.ok THEN Raise(st)
        ELSE IF ev.is_directory
             THEN create_remote_directory(delete_file(st, root, src_relative.str),
                                          root, dest_relative.str)
             ELSE upload_file(delete_file(st, root, src_relative.str),
                              root, ev.dest_path)

\* An event kind SyncHandler does not override: the inherited handler does nothing.
on_any_event(st, root, ev) == st

\* The handler the observer calls for an event, chosen by the event's kind.
dispatch(st, root, ev) ==
    IF ev.kind = "created" THEN on_created(st, root, ev)
    ELSE IF ev.kind = "modified" THEN on_modified(st, root, ev)
    ELSE IF ev.kind = "deleted" THEN on_deleted(st, root, ev)
    ELSE IF ev.kind = "moved" THEN on_moved(st, root, ev)
    ELSE on_any_event(st, root, ev)

----------------------------------------------------------------------------
(* The state machine *)

EmptyString == <<"">>

NoEvent == [kind |-> "none", is_directory |-> FALSE,
            src_path |-> EmptyString, dest_path |-> EmptyString]

NoResult == [called |-> FALSE, ok |-> FALSE, str |-> EmptyString]

Event(kind, is_directory, src_path, dest_path) ==
    [kind |-> kind, is_directory |-> is_directory,
     src_path |-> src_path, dest_path |-> dest_path]

\* MockFTPSync(local_path, remote_path), then SyncHandler(mock_sync).
Init ==
    /\ local_path \in {PathOf(s) : s \in HandlerRoots}
    /\ operations = <<>>
    /\ event = NoEvent
    /\ raised = FALSE
    /\ logged = <<>>
    /\ prev_operations = <<>>
    /\ without_failures = <<>>
    /\ failed = FALSE
    /\ since_clear = <<>>
    /\ local_files = {}
    /\ remote_files = {}
    /\ arg = EmptyString
    /\ res = NoResult

Idle == event = NoEvent /\ Len(operations) <= MaxOps

Entry == [operations |-> operations, logged |-> <<>>, raised |-> FALSE]

\* A handler entered with the log ops.
EntryWith(ops) == [operations |-> ops, logged |-> <<>>, raised |-> FALSE]

\* Mutant: the handler call rebinds the transport's local_path to the event's path.
Dispatch_rebinding_root(ev, st) ==
    /\ event' = ev
    /\ prev_operations' = operations
    /\ operations' = st.operations
    /\ logged' = st.logged
    /\ raised' = st.raised
    /\ without_failures' =
          IF st.raised THEN without_failures
          ELSE dispatch(EntryWith(without_failures), local_path, ev).operations
    /\ failed' = (failed \/ st.raised)
    /\ since_clear' = since_clear \o dispatch(EntryWith(<<>>), local_path, ev).operations
    /\ local_path' = PathOf(ev.src_path)
    /\ UNCHANGED <<local_files, remote_files, arg, res>>

\* The observer calls a handler with ev; st is the call's outcome.
Dispatch(ev, st) ==
    /\ event' = ev
    /\ prev_operations' = operations
    /\ operations' = st.operations
    /\ logged' = st.logged
    /\ raised' = st.raised
    /\ without_failures' =
          IF st.raised THEN without_failures
          ELSE dispatch(EntryWith(without_failures), local_path, ev).operations
    /\ failed' = (failed \/ st.raised)
    /\ since_clear' = since_clear \o dispatch(EntryWith(<<>>), local_path, ev).operations
    /\ UNCHANGED <<local_path, local_files, remote_files, arg, res>>

OnCreated ==
    /\ Idle
    /\ \E d \in BOOLEAN, src \in EventPaths :
        LET ev == Event("created", d, src, EmptyString)
        IN  Dispatch(ev, on_created(Entry, local_path, ev))

OnModified ==
    /\ Idle
    /\ \E d \in BOOLEAN, src \in EventPaths :
        LET ev == Event("modified", d, src, EmptyString)
        IN  Dispatch(ev, on_modified(Entry, local_path, ev))

OnDeleted ==
    /\ Idle
    /\ \E d \in BOOLEAN, src \in EventPaths :
        LET ev == Event("deleted", d, src, EmptyString)
        IN  Dispatch(ev, on_deleted(Entry, local_path, ev))

OnMoved ==
    /\ Idle
    /\ \E d \in BOOLEAN, src \in EventPaths, dest \in EventPaths :
        LET ev == Event("moved", d, src, dest)
        IN  Dispatch(ev, on_moved(Entry, local_path, ev))

OnOther ==
    /\ Idle
    /\ \E d \in BOOLEAN, src \in EventPaths :
        LET ev == Event("closed", d, src, EmptyString)
        IN  Dispatch(ev, on_any_event(Entry, local_path, ev))

\* The handler call is over; the observer keeps nothing of the event.
Return ==
    /\ event # NoEvent
    /\ event' = NoEvent
    /\ raised' = FALSE
    /\ logged' = <<>>
    /\ prev_operations' = operations
    /\ UNCHANGED <<local_path, operations, without_failures, failed, since_clear,
                   local_files, remote_files, arg, res>>

clear_operations ==
    /\ event = NoEvent
    /\ operations' = <<>>
    /\ prev_operations' = <<>>
    /\ without_failures' = <<>>
    /\ failed' = FALSE
    /\ since_clear' = <<>>
    /\ UNCHANGED <<local_path, event, raised, logged, local_files, remote_files,
                   arg, res>>

get_operations == operations

Next ==
    \/ OnCreated
    \/ OnModified
    \/ OnDeleted
    \/ OnMoved
    \/ OnOther
    \/ Return
    \/ clear_operations

Spec == Init /\ [][Next]_vars

----------------------------------------------------------------------------
(* The resolver alone, on every path string within the bound *)

ResolveInit ==
    /\ local_path \in {PathOf(s) : s \in RootStrings}
    /\ operations = <<>>
    /\ event = NoEvent
    /\ raised = FALSE
    /\ logged = <<>>
    /\ prev_operations = <<>>
    /\ without_failures = <<>>
    /\ failed = FALSE
    /\ since_clear = <<>>
    /\ local_files = {}
    /\ remote_files = {}
    /\ arg \in ResolverPaths
    /\ res = NoResult

CallResolve ==
    /\ ~res.called
    /\ res' = [called |-> TRUE,
               ok |-> Resolve(arg, local_path).ok,
               str |-> Resolve(arg, local_path).str]
    /\ UNCHANGED <<local_path, operations, event, raised, logged, prev_operations,
                   without_failures, failed, since_clear, local_files, remote_files,
                   arg>>

ResolveNext == CallResolve

ResolveSpec == ResolveInit /\ [][ResolveNext]_vars

----------------------------------------------------------------------------
(* Mirroring: local file changes, the events that report them, and a remote *)
(* store that applies the operations recorded for each event                *)

\* The names of the mirrored files and directories.
MirrorNames == {"a", "r"}

\* The files there can be, as the parts of their paths below the watch root.
MirrorFiles == SeqsUpTo(MirrorNames, MirrorDepth) \ {<<>>}

\* No file lies below another file.
Consistent(files) == \A f \in files, g \in files : f # g => ~IsPrefix(f, g)

\* The absolute path the watcher reports for the file f below root.
ReportedPath(root, f) == StrOf([root |-> root.root, parts |-> root.parts \o f])

\* The remote store after the operations ops: Upload puts a file at the remote
\* path, Delete removes the file at the remote path if there is one,
\* CreateDirectory adds no file.
RECURSIVE ApplyAll(_, _)
ApplyAll(ops, files) ==
    IF ops = <<>> THEN files
    ELSE ApplyAll(Tail(ops),
                  IF Head(ops).type = "upload" THEN files \cup {Head(ops).remote}
                  ELSE IF Head(ops).type = "delete" THEN files \ {Head(ops).remote}
                  ELSE files)

MirrorInit ==
    /\ local_path \in {PathOf(s) : s \in RootStrings}
    /\ operations = <<>>
    /\ event = NoEvent
    /\ raised = FALSE
    /\ logged = <<>>
    /\ prev_operations = <<>>
    /\ without_failures = <<>>
    /\ failed = FALSE
    /\ since_clear = <<>>
    /\ local_files \in {files \in SUBSET MirrorFiles : Consistent(files)}
    /\ remote_files = local_files
    /\ arg = EmptyString
    /\ res = NoResult

\* The local files become files; the log is cleared, the handler is called with
\* the event that reports the change, and the store applies the recorded
\* operations in order.
Mirror(ev, files) ==
    LET st == dispatch(EntryWith(<<>>), local_path, ev)
    IN  /\ Consistent(files)
        /\ local_files' = files
        /\ event' = ev
        /\ prev_operations' = <<>>
        /\ operations' = st.operations
        /\ logged' = st.logged
        /\ raised' = st.raised
        /\ remote_files' = ApplyAll(st.operations, remote_files)
        /\ UNCHANGED <<local_path, without_failures, failed, since_clear, arg, res>>

FileCreated ==
    \E f \in MirrorFiles \ local_files :
        Mirror(Event("created", FALSE, ReportedPath(local_path, f), EmptyString),
               local_files \cup {f})

FileModified ==
    \E f \in local_files :
        Mirror(Event("modified", FALSE, ReportedPath(local_path, f), EmptyString),
               local_files)

FileDeleted ==
    \E f \in local_files :
        Mirror(Event("deleted", FALSE, ReportedPath(local_path, f), EmptyString),
               local_files \ {f})

FileMoved ==
    \E f \in local_files, g \in MirrorFiles :
        Mirror(Event("moved", FALSE, ReportedPath(local_path, f),
                     ReportedPath(local_path, g)),
               (local_files \ {f}) \cup {g})

MirrorNext ==
    \/ FileCreated
    \/ FileModified
    \/ FileDeleted
    \/ FileMoved

MirrorSpec == MirrorInit /\ [][MirrorNext]_vars

----------------------------------------------------------------------------
(* The vocabulary of the claims *)

Upload(localPath, remoteRelativePath) ==
    [type |-> "upload", local |-> localPath, remote |-> remoteRelativePath]
Delete(remoteRelativePath) == [type |-> "delete", remote |-> remoteRelativePath]
CreateDirectory(remoteRelativePath) ==
    [type |-> "create_dir", remote |-> remoteRelativePath]

\* The resolver accepts s under the watch root, and what it returns then.
Accepted(s) == Resolve(s, local_path).ok
resolve(s) == Resolve(s, local_path).str

\* s as pathlib prints it: no empty or "." piece, no trailing separator.
Printed(s) == StrOf(PathOf(s))

\* The handler returned normally and appended exactly ops to the log.
Emitted(ops) == ~raised /\ operations = prev_operations \o ops

\* The handler left the log as it found it.
NothingEmitted == operations = prev_operations

StartsWithSeparator(s) == Len(s) >= 2 /\ s[1] = ""
HasDotDot(s) == \E i \in 1..Len(s) : s[i] = ".."

\* Where a path leads once its ".." pieces are followed: each ".." removes the
\* part before it, and the root's parent is the root.
RECURSIVE Collapse(_, _)
Collapse(parts, acc) ==
    IF parts = <<>> THEN acc
    ELSE IF Head(parts) = ".."
         THEN Collapse(Tail(parts),
                       IF acc = <<>> THEN <<>> ELSE SubSeq(acc, 1, Len(acc) - 1))
         ELSE Collapse(Tail(parts), Append(acc, Head(parts)))

Location(p) == [root |-> p.root, parts |-> Collapse(p.parts, <<>>)]

\* s leads to the watch root or below it / strictly below it.
Descendant(s) ==
    /\ Location(PathOf(s)).root = Location(local_path).root
    /\ IsPrefix(Location(local_path).parts, Location(PathOf(s)).parts)
StrictDescendant(s) ==
    /\ Descendant(s)
    /\ Len(Location(PathOf(s)).parts) > Len(Location(local_path).parts)

\* root / relative, pathlib's join.
Join(root, relative) ==
    IF PathOf(relative).root # "" THEN PathOf(relative)
    ELSE [root |-> root.root, parts |-> root.parts \o PathOf(relative).parts]

\* The paths a handler resolves for an event.
ResolvedPaths(ev) ==
    IF ev.kind = "moved" THEN {ev.src_path, ev.dest_path}
    ELSE IF ev.kind = "created" THEN {ev.src_path}
    ELSE IF ev.kind \in {"modified", "deleted"} /\ ~ev.is_directory THEN {ev.src_path}
    ELSE {}

----------------------------------------------------------------------------
(* C1 *)

\* C1 as stated: a Moved file event whose two paths the resolver accepts emits
\* exactly Delete(resolve(sourcePath)) then Upload(destPath, resolve(destPath)).
C1_MovedFileAsStated ==
    (event.kind = "moved" /\ ~event.is_directory
        /\ Accepted(event.src_path) /\ Accepted(event.dest_path))
    => Emitted(<<Delete(resolve(event.src_path)),
                 Upload(event.dest_path, resolve(event.dest_path))>>)

\* C1 amended: a Moved file event whose two paths the resolver accepts emits
\* exactly two operations, Delete(resolve(sourcePath)) first and then
\* Upload(d, resolve(destPath)), where d is destPath as pathlib prints it; d is
\* destPath itself when destPath is already in that form.
C1_MovedFile ==
    (event.kind = "moved" /\ ~event.is_directory
        /\ Accepted(event.src_path) /\ Accepted(event.dest_path))
    => /\ Emitted(<<Delete(resolve(event.src_path)),
                    Upload(Printed(event.dest_path), resolve(event.dest_path))>>)
       /\ Printed(event.dest_path) = event.dest_path
            => operations[Len(operations)].local = event.dest_path

C1_Witness ==
    /\ event.kind = "moved" /\ ~event.is_directory
    /\ ~HasDotDot(event.src_path) /\ ~HasDotDot(event.dest_path)
    /\ Accepted(event.src_path) /\ Accepted(event.dest_path)
    /\ Printed(event.dest_path) # event.dest_path
    /\ prev_operations # <<>>
    /\ Len(operations) = Len(prev_operations) + 2
    /\ operations[Len(operations) - 1].type = "delete"
    /\ operations[Len(operations)].type = "upload"

----------------------------------------------------------------------------
(* C2 *)

\* C2: a Moved directory event whose two paths the resolver accepts emits
\* exactly Delete(resolve(sourcePath)) then CreateDirectory(resolve(destPath)),
\* and nothing else (no Upload, no further CreateDirectory).
C2_MovedDirectory ==
    (event.kind = "moved" /\ event.is_directory
        /\ Accepted(event.src_path) /\ Accepted(event.dest_path))
    => Emitted(<<Delete(resolve(event.src_path)),
                 CreateDirectory(resolve(event.dest_path))>>)

C2_Witness ==
    /\ event.kind = "moved" /\ event.is_directory
    /\ ~HasDotDot(event.src_path) /\ ~HasDotDot(event.dest_path)
    /\ Accepted(event.src_path) /\ Accepted(event.dest_path)
    /\ event.src_path # event.dest_path
    /\ prev_operations # <<>>
    /\ Len(operations) = Len(prev_operations) + 2
    /\ operations[Len(operations) - 1].type = "delete"
    /\ operations[Len(operations)].type = "create_dir"

----------------------------------------------------------------------------
(* C3 *)

\* C3: the remote path of every recorded operation is relative to the watch
\* root and stays inside it: it does not start with a separator and has no
\* ".." piece.
C3_RemoteStaysInsideRoot ==
    \A i \in 1..Len(operations) :
        /\ ~StartsWithSeparator(operations[i].remote)
        /\ ~HasDotDot(operations[i].remote)

----------------------------------------------------------------------------
(* C4 *)

\* C4: handling is all-or-nothing.  A handler that raised left the log exactly
\* as it was on entry, and a handler one of whose resolved paths is not
\* accepted raises; so a Moved event with an accepted source and a rejected
\* destination records no Delete.
C4_AllOrNothing ==
    event # NoEvent =>
        /\ raised => NothingEmitted
        /\ (\E p \in ResolvedPaths(event) : ~Accepted(p)) => raised /\ NothingEmitted

C4_Witness ==
    /\ event.kind = "moved"
    /\ ~HasDotDot(event.src_path) /\ ~HasDotDot(event.dest_path)
    /\ Accepted(event.src_path) /\ ~Accepted(event.dest_path)
    /\ raised
    /\ prev_operations # <<>>
    /\ operations = prev_operations

----------------------------------------------------------------------------
(* C5 *)

\* C5: handling a Deleted directory event leaves a trace the caller or an
\* operator can observe: a log record, an exception or a recorded operation.
C5_DeletedDirectoryLeavesTrace ==
    (event.kind = "deleted" /\ event.is_directory)
    => (logged # <<>> \/ raised \/ operations # prev_operations)

----------------------------------------------------------------------------
(* C6 *)

\* C6 as stated: a Created event whose path the resolver accepts emits exactly
\* Upload(sourcePath, resolve(sourcePath)) for a file and
\* CreateDirectory(resolve(sourcePath)) for a directory.
C6_CreatedAsStated ==
    (event.kind = "created" /\ Accepted(event.src_path))
    => Emitted(<<IF event.is_directory
                 THEN CreateDirectory(resolve(event.src_path))
                 ELSE Upload(event.src_path, resolve(event.src_path))>>)

\* C6 amended: a Created event whose path the resolver accepts emits exactly
\* one operation: CreateDirectory(resolve(sourcePath)) for a directory, the
\* path resolved once; Upload(s, resolve(sourcePath)) for a file, where s is
\* sourcePath as pathlib prints it, sourcePath itself when already in that form.
C6_Created ==
    (event.kind = "created" /\ Accepted(event.src_path))
    => /\ Emitted(<<IF event.is_directory
                    THEN CreateDirectory(resolve(event.src_path))
                    ELSE Upload(Printed(event.src_path), resolve(event.src_path))>>)
       /\ (~event.is_directory /\ Printed(event.src_path) = event.src_path)
            => operations[Len(operations)].local = event.src_path

C6_Witness ==
    /\ event.kind = "created" /\ event.is_directory
    /\ Accepted(event.src_path)
    /\ ~HasDotDot(event.src_path)
    /\ resolve(event.src_path) # <<".">>
    /\ prev_operations # <<>>
    /\ operations = Append(prev_operations, CreateDirectory(resolve(event.src_path)))

----------------------------------------------------------------------------
(* C7 *)

\* C7: a Deleted file event whose path the resolver accepts emits exactly one
\* operation, Delete(resolve(sourcePath)).
C7_DeletedFile ==
    (event.kind = "deleted" /\ ~event.is_directory /\ Accepted(event.src_path))
    => Emitted(<<Delete(resolve(event.src_path))>>)

C7_Witness ==
    /\ event.kind = "deleted" /\ ~event.is_directory
    /\ Accepted(event.src_path)
    /\ ~HasDotDot(event.src_path)
    /\ resolve(event.src_path) # <<".">>
    /\ prev_operations # <<>>
    /\ operations = Append(prev_operations, Delete(resolve(event.src_path)))

----------------------------------------------------------------------------
(* C8 *)

\* C8 as stated: a Modified file event whose path the resolver accepts emits
\* exactly Upload(sourcePath, resolve(sourcePath)); a Modified directory event
\* emits nothing and leaves the log unchanged, whatever its path.
C8_ModifiedAsStated ==
    /\ (event.kind = "modified" /\ ~event.is_directory /\ Accepted(event.src_path))
       => Emitted(<<Upload(event.src_path, resolve(event.src_path))>>)
    /\ (event.kind = "modified" /\ event.is_directory) => Emitted(<<>>)

\* C8 amended: a Modified file event whose path the resolver accepts emits
\* exactly Upload(s, resolve(sourcePath)), where s is sourcePath as pathlib
\* prints it, sourcePath itself when already in that form; a Modified
\* directory event emits nothing and leaves the log unchanged, whatever its
\* path is, one outside the root included.
C8_Modified ==
    /\ (event.kind = "modified" /\ ~event.is_directory /\ Accepted(event.src_path))
       => /\ Emitted(<<Upload(Printed(event.src_path), resolve(event.src_path))>>)
          /\ Printed(event.src_path) = event.src_path
               => operations[Len(operations)].local = event.src_path
    /\ (event.kind = "modified" /\ event.is_directory) => Emitted(<<>>)

C8_Witness ==
    /\ event.kind = "modified" /\ event.is_directory
    /\ ~Accepted(event.src_path)
    /\ ~HasDotDot(event.src_path)
    /\ ~raised
    /\ prev_operations # <<>>
    /\ prev_operations[1].type = "upload"
    /\ operations = prev_operations

----------------------------------------------------------------------------
(* C9 *)

\* C9: for every absolute path p strictly under the watch root r, resolve(p, r)
\* succeeds, its result neither starts with a separator nor has a ".." piece,
\* and r joined with the result is the path p again.
C9_RoundTrip ==
    (res.called /\ StrictDescendant(arg))
    => /\ res.ok
       /\ ~StartsWithSeparator(res.str)
       /\ ~HasDotDot(res.str)
       /\ Join(local_path, res.str) = PathOf(arg)

----------------------------------------------------------------------------
(* C10 *)

\* C10: for every absolute path p that is not the watch root r nor below it,
\* resolve(p, r) fails and returns no relative path.
C10_OutsideRootFails ==
    (res.called /\ ~Descendant(arg)) => ~res.ok

----------------------------------------------------------------------------
(* C11 *)

\* C11: failure is event-scoped.  After any sequence of events the log equals
\* the log of the same sequence with the raising events left out, and after a
\* handler has raised, a later event all of whose resolved paths are accepted
\* is still handled without raising.
C11_FailureIsEventScoped ==
    /\ operations = without_failures
    /\ (failed /\ event # NoEvent /\ \A p \in ResolvedPaths(event) : Accepted(p))
         => ~raised

C11_Witness ==
    /\ failed
    /\ event # NoEvent /\ ~raised
    /\ prev_operations # <<>>
    /\ Len(operations) > Len(prev_operations)
    /\ operations = without_failures

----------------------------------------------------------------------------
(* C12 *)

----------------------------------------------------------------------------
(* C13 *)

\* The operations the handler call in progress appended.
EmittedNow == SubSeq(operations, Len(prev_operations) + 1, Len(operations))

\* C13: what an event emits depends on the event and the watch root alone.
\* Whatever was handled and recorded before, the call appends the operations,
\* logs the records and raises or not exactly as the same event does when it
\* is the first one handled, on an empty log.
C13_IndependentOfHistory ==
    event # NoEvent =>
        LET first == dispatch(EntryWith(<<>>), local_path, event)
        IN  /\ raised = first.raised
            /\ logged = first.logged
            /\ EmittedNow = first.operations

C13_Witness ==
    /\ event # NoEvent /\ ~raised
    /\ EmittedNow # <<>>
    /\ \E i \in 1..Len(prev_operations) : prev_operations[i] = operations[Len(operations)]

----------------------------------------------------------------------------
(* C14 *)

\* The event's source path is the watch root, and its handler emits an
\* operation for the source.
SourceIsRoot ==
    /\ PathOf(event.src_path) = local_path
    /\ \/ event.kind = "created"
       \/ event.kind \in {"modified", "deleted"} /\ ~event.is_directory
       \/ event.kind = "moved" /\ Accepted(event.dest_path)

\* The operation emitted for the event's source path.
SourceOperation == operations[Len(prev_operations) + 1]

\* C14 as stated: an event whose source path is the watch root is handled
\* without failure and the remote path of its operation is the empty string.
C14_RootIsEmptyStringAsStated ==
    SourceIsRoot =>
        /\ ~raised
        /\ Len(operations) > Len(prev_operations)
        /\ SourceOperation.remote = EmptyString

\* C14 amended: an event whose source path is the watch root is handled
\* without failure and the remote path of its operation is ".", the string
\* pathlib prints for the relative path of zero segments; it is never the
\* empty string.
C14_RootIsDot ==
    SourceIsRoot =>
        /\ ~raised
        /\ Len(operations) > Len(prev_operations)
        /\ SourceOperation.remote = <<".">>
        /\ PathOf(SourceOperation.remote).parts = <<>>

C14_Witness ==
    /\ event.kind = "created" /\ event.is_directory
    /\ event.src_path = StrOf(local_path)
    /\ local_path.parts # <<>>
    /\ operations = Append(prev_operations, CreateDirectory(<<".">>))

----------------------------------------------------------------------------
(* C15 *)

\* C15: the log is append-only and keeps delivery order.  get_operations() is
\* the concatenation, in delivery order, of the operations of each event
\* handled since the last clear_operations() (since construction when there
\* was none), and a handler call leaves every operation recorded before it in
\* place.
C15_AppendOnlyInOrder ==
    /\ get_operations = since_clear
    /\ event # NoEvent => IsPrefix(prev_operations, get_operations)

C15_Witness ==
    /\ event.kind = "deleted" /\ ~raised
    /\ prev_operations # <<>>
    /\ prev_operations[Len(prev_operations)].type = "upload"
    /\ prev_operations[Len(prev_operations)].remote = operations[Len(operations)].remote
    /\ Len(get_operations) = Len(prev_operations) + 1

----------------------------------------------------------------------------
(* C16 *)

\* C16: starting from equal local and remote file sets, after every file event
\* that reports a local change under the watch root, the paths of the files in
\* the remote store are the paths, relative to the root, of the local files,
\* and no handler call has raised; so after a Moved event from a path to the
\* same path the file is still in the remote store.
C16_RemoteMirrorsLocal ==
    /\ remote_files = local_files
    /\ ~raised

C16_Witness ==
    /\ event.kind = "moved"
    /\ event.src_path = event.dest_path
    /\ \E f \in local_files :
          /\ event.src_path = ReportedPath(local_path, f)
          /\ f \in remote_files
    /\ operations = <<Delete(resolve(event.src_path)),
                      Upload(event.dest_path, resolve(event.dest_path))>>

====
